---- MODULE Spec2Model ----
(***************************************************************************)
(* State-machine model of snapchat-dl: the console script's thread pool    *)
(* (cli.py main), SnapchatDL.download with its per-call worker pool, and   *)
(* the two fetch routines SnapchatDL.download_url (snapchat_dl.py) and     *)
(* download_url (downloader.py), over a POSIX file system and a remote     *)
(* server answering manifest and media requests.                           *)
(***************************************************************************)
EXTENDS Integers, Sequences, FiniteSets, TLC

VARIABLES
    cfg,        \* the SnapchatDL instance: max_workers, limit_story, no_progress
    args,       \* args.usernames handed to main()
    server,     \* what the remote answers: manifest per username, media per url
    submitted,  \* how many of args main() has submitted to its executor
    caller,     \* who drives the program: "cli", or a harness calling download_url
    call,       \* the download(username) calls, by position in args; ret is the value
                \* returned ("True", "False"), exc the exception raised
    job,        \* the download_url invocations, keyed <<call, index>> (call 0: the harness)
    fs,         \* destination path -> file (inode and content) for the files that exist
    dirs,       \* directories that exist
    tdqm_progressbar,   \* the instance attribute: the bar created last ("unset": none)
    bars,       \* the tqdm bars created, by the call that created them
    first_run   \* for a run repeated with the other no_progress setting: the file
                \* system both runs start from, and what the first run ended with

inputs == <<cfg, args, server, caller, first_run>>
progress == <<tdqm_progressbar, bars>>
vars == <<inputs, submitted, call, progress, job, fs, dirs>>

(***************************** bounds **************************************)
MaxUsers == 2      \* usernames given to one run of the console script
MaxSnaps == 2      \* snaps in a manifest, and distinct snaps the server knows
MaxWorkers == 2    \* largest max_workers tried
MaxChunks == 2     \* chunks in a media body
MaxNameLen == 2    \* characters in a username (validation specification)
MaxDirect == 2     \* direct invocations of a fetch routine (fetch specification)
MaxJobs == 3       \* snaps of all submitted usernames together (batch specification)
MaxPair == 2       \* the same, in the smaller batch specification

(************************* program constants *******************************)
response_ok == 200      \* requests.codes.get("ok")
DaySecs == 86400        \* seconds per day in strf_time's %Y-%m-%d

(***************************************************************************)
(* Python values whose type matters to ==.                                 *)
(***************************************************************************)
PyInt(n) == [t |-> "int", v |-> n]

Digit(d) == <<"0", "1", "2", "3", "4", "5", "6", "7", "8", "9">>[d + 1]

RECURSIVE Decimal(_)
Decimal(n) == IF n < 10 THEN <<Digit(n)>> ELSE Append(Decimal(n \div 10), Digit(n % 10))

\* A header value as requests delivers it: the decimal text of the number.
PyStr(n) == [t |-> "str", v |-> Decimal(n)]

\* Python's == between an int and a str is False, whatever the digits say.
PyEq(a, b) == a.t = b.t /\ a.v = b.v

(***************************************************************************)
(* Usernames are sequences of characters.  "a" "b" stand for ASCII         *)
(* letters, "7" for a digit, "e'" for a non-ASCII letter (Unicode word     *)
(* character), "-" for an ASCII character outside the class, "\n" newline. *)
(***************************************************************************)
AsciiWord == {"a", "b", "7", "_"}
UnicodeWord == AsciiWord \cup {"e'"}
Chars == UnicodeWord \cup {".", "-", "\n"}

RECURSIVE SeqsUpTo(_, _)
SeqsUpTo(S, n) ==
    IF n = 0 THEN {<<>>}
    ELSE LET shorter == SeqsUpTo(S, n - 1)
         IN shorter \cup {Append(s, x) : s \in {t \in shorter : Len(t) = n - 1}, x \in S}

\* The character class [\w\.\_] of a str pattern: \w is Unicode-aware.
InClass(ch) == ch \in UnicodeWord \cup {".", "_"}

\* re.match(r"(?P<username>^[\w\.\_]+$)", username): None, or the match with the
\* text of its group.  + is greedy and $ matches at the end or before a final newline.
re_match(username) ==
    LET ends == {k \in 1..Len(username) :
                    /\ \A i \in 1..k : InClass(username[i])
                    /\ \/ k = Len(username)
                       \/ k = Len(username) - 1 /\ username[Len(username)] = "\n"}
    IN IF ends = {} THEN [none |-> TRUE, username |-> <<>>]
       ELSE [none |-> FALSE,
             username |-> SubSeq(username, 1, CHOOSE k \in ends : \A m \in ends : m <= k)]

valid_username(username) ==
    LET match == re_match(username)
    IN IF match.none THEN FALSE ELSE match.username = username

(***************************************************************************)
(* Manifest items, destinations.                                           *)
(***************************************************************************)
Snap(i) ==
    [id |-> i,
     captureTimeSecs |-> i * 3600,
     media |-> [mediaUrl |-> i,
                type |-> IF i % 2 = 1 THEN "IMAGE" ELSE "VIDEO"]]

media_type(type) ==
    CASE type = "IMAGE" -> ".jpg"
      [] type = "VIDEO" -> ".mp4"
      [] type = "VIDEO_NO_SOUND" -> ".mp4"
      [] OTHER -> "None"

\* strf_time(timestamp, "%Y-%m-%d"): the day, and "%H-%M-%S": the second of the day.
strf_date(timestamp) == timestamp \div DaySecs
strf_clock(timestamp) == timestamp % DaySecs

dir_name(username, media) == <<username, strf_date(media.captureTimeSecs)>>

output(username, media) ==
    [dir |-> dir_name(username, media),
     file |-> <<strf_date(media.captureTimeSecs), strf_clock(media.captureTimeSecs),
                media.id, username, media_type(media.media.type)>>]

\* The body the server holds for a url: its chunks, in order.
Body(url) == [k \in 1..server.media[url].length |-> <<url, k>>]

(***************************************************************************)
(* File system: os.path.isfile, os.path.getsize, os.remove, open(.., "xb") *)
(* and writes through a handle.  A handle names the inode it opened; after *)
(* an unlink the writes of an old handle no longer reach the path.         *)
(***************************************************************************)
isfile(f, dest) == dest \in DOMAIN f
getsize(f, dest) == Len(f[dest].data)
remove(f, dest) == [p \in DOMAIN f \ {dest} |-> f[p]]
\* Mutant: the file is opened in mode "wb", which takes over a path that exists.
open_w_refuses(f, dest) == FALSE
\* Mode "x" refuses a path that exists (FileExistsError).
open_x_refuses(f, dest) == isfile(f, dest)
\* The zero-size test of the cleanup: os.path.getsize(dest) == 0.
zero_size(f, dest) == getsize(f, dest) = 0
open_xb(f, dest, ino) == (dest :> [ino |-> ino, data |-> <<>>]) @@ f
write(f, dest, ino, data) ==
    IF isfile(f, dest) /\ f[dest].ino = ino
    THEN [f EXCEPT ![dest].data = Append(@, data)]
    ELSE f

\* response.raise_for_status(): HTTPError for 4xx and 5xx, otherwise it returns None.
raise_for_status(status) ==
    IF status >= 400 /\ status < 600 THEN "HTTPError" ELSE "None"

\* `raise x`: raising None is a TypeError.
raise(x) == IF x = "None" THEN "TypeError" ELSE x

(***************************************************************************)
(* The worker pools.  A ThreadPoolExecutor runs its work items in FIFO     *)
(* order on at most max_workers threads.                                   *)
(***************************************************************************)
Jobs == DOMAIN job
JobsOf(c) == {j \in Jobs : j[1] = c}
Running(j) == job[j].pc \notin {"pending", "done"}

\* Mutant: the work items of download are run by the threads of main()'s executor,
\* which the download calls themselves occupy.
CanStart_on_outer_pool(j) ==
    /\ job[j].pc = "pending"
    /\ IF j[1] = 0 THEN TRUE
       ELSE /\ \A k \in JobsOf(j[1]) : k[2] < j[2] => job[k].pc # "pending"
            /\ Cardinality({k \in Jobs : Running(k)})
                 + Cardinality({c \in DOMAIN call : call[c].pc \notin {"queued", "done"}})
               < cfg.max_workers

\* A pending work item is taken when a thread of its pool is free and the items
\* queued before it have been taken.  The harness runs each of its calls itself.
CanStart(j) ==
    /\ job[j].pc = "pending"
    /\ IF j[1] = 0 THEN TRUE
       ELSE /\ \A k \in JobsOf(j[1]) : k[2] < j[2] => job[k].pc # "pending"
            /\ Cardinality({k \in JobsOf(j[1]) : Running(k)}) < cfg.max_workers

NewJob(impl, url, dest) ==
    [impl |-> impl, url |-> url, dest |-> dest, pc |-> "pending", out |-> "none",
     n |-> 0, pre |-> {}, slept |-> FALSE, logged |-> FALSE]

\* snapchat_dl.py 164-166: _progressbar_update, the done-callback download adds to
\* each future it submits; it runs on the worker thread as the work item ends.
progressbar_update(j) ==
    IF j[1] # 0 /\ cfg.no_progress = FALSE
    THEN /\ bars' = [bars EXCEPT ![tdqm_progressbar].n = @ + 1]
         /\ tdqm_progressbar' = tdqm_progressbar
    ELSE UNCHANGED progress

Goto(j, pc) == job' = [job EXCEPT ![j].pc = pc] /\ UNCHANGED progress

\* Mutant: an exception of the done-callback becomes the outcome of the work item.
Finish_callback_raises(j, out) ==
    /\ job' = [job EXCEPT ![j].pc = "done",
                          ![j].out = IF j[1] # 0 /\ cfg.no_progress = FALSE
                                     THEN "callback" ELSE out]
    /\ progressbar_update(j)

\* The routine ends: it returns, or raises out.
Finish(j, out) ==
    /\ job' = [job EXCEPT ![j].pc = "done", ![j].out = out]
    /\ progressbar_update(j)

\* The destination as the fetch finds it when it starts: the file, if there is one.
Found(f, dest) == IF isfile(f, dest) THEN {f[dest]} ELSE {}

(***************************************************************************)
(* SnapchatDL.download_url(url, dest), snapchat_dl.py 97-116.              *)
(***************************************************************************)
\* 97, 99: os.makedirs(dirname, exist_ok=True); os.path.isfile(dest)
download_url_makedirs(j) ==
    /\ job[j].impl = "method"
    /\ CanStart(j)
    /\ dirs' = dirs \cup {job[j].dest.dir}
    /\ job' = [job EXCEPT ![j].pc = IF isfile(fs, job[j].dest) THEN "getsize" ELSE "open",
                          ![j].pre = Found(fs, job[j].dest)]
    /\ UNCHANGED progress
    /\ UNCHANGED <<inputs, submitted, call, fs>>

\* 99: os.path.getsize(dest) == 0; the file may be gone since isfile
download_url_getsize(j) ==
    /\ job[j].impl = "method"
    /\ job[j].pc = "getsize"
    /\ IF ~isfile(fs, job[j].dest) THEN Finish(j, "FileNotFoundError")
       ELSE IF zero_size(fs, job[j].dest) THEN Goto(j, "remove")
       ELSE Goto(j, "open")
    /\ UNCHANGED <<inputs, submitted, call, fs, dirs>>

\* 100: os.remove(dest)
download_url_remove(j) ==
    /\ job[j].impl = "method"
    /\ job[j].pc = "remove"
    /\ IF ~isfile(fs, job[j].dest)
       THEN Finish(j, "FileNotFoundError") /\ fs' = fs
       ELSE Goto(j, "open") /\ fs' = remove(fs, job[j].dest)
    /\ UNCHANGED <<inputs, submitted, call, dirs>>

\* 102: with open(dest, "xb") as handle
download_url_open(j) ==
    /\ job[j].impl = "method"
    /\ job[j].pc = "open"
    /\ IF open_x_refuses(fs, job[j].dest)
       THEN Finish(j, "FileExistsError") /\ fs' = fs
       ELSE Goto(j, "get") /\ fs' = open_xb(fs, job[j].dest, j)
    /\ UNCHANGED <<inputs, submitted, call, dirs>>

\* 103-105: requests.get(url, stream=True, timeout=10); the status check
download_url_get(j) ==
    /\ job[j].impl = "method"
    /\ job[j].pc = "get"
    /\ IF server.media[job[j].url].status # response_ok
       THEN Finish(j, raise(raise_for_status(server.media[job[j].url].status)))
       ELSE Goto(j, "cmpsize")
    /\ UNCHANGED <<inputs, submitted, call, fs, dirs>>

\* 107-108: os.path.getsize(dest) == response.headers["Content-length"]
download_url_cmpsize(j) ==
    /\ job[j].impl = "method"
    /\ job[j].pc = "cmpsize"
    /\ IF ~isfile(fs, job[j].dest) THEN Finish(j, "FileNotFoundError")
       ELSE IF ~server.media[job[j].url].declared THEN Finish(j, "KeyError")
       ELSE IF PyEq(PyInt(getsize(fs, job[j].dest)), PyStr(server.media[job[j].url].length))
       THEN Finish(j, "FileExistsError")
       ELSE Goto(j, "stream")
    /\ UNCHANGED <<inputs, submitted, call, fs, dirs>>

\* 110-113: for data in response.iter_content(..): handle.write(data); handle.close()
\* 114-115: a RequestException raised by the stream is printed
download_url_stream(j) ==
    /\ job[j].impl = "method"
    /\ job[j].pc = "stream"
    /\ IF job[j].n = server.media[job[j].url].length
       THEN Finish(j, "returned") /\ fs' = fs
       ELSE \E arrives \in BOOLEAN :
              IF arrives
              THEN /\ fs' = write(fs, job[j].dest, j, Body(job[j].url)[job[j].n + 1])
                   /\ job' = [job EXCEPT ![j].n = @ + 1]
                   /\ UNCHANGED progress
              ELSE /\ fs' = fs
                   /\ job' = [job EXCEPT ![j].pc = "rm_err", ![j].logged = TRUE]
                   /\ UNCHANGED progress
    /\ UNCHANGED <<inputs, submitted, call, dirs>>

\* 116: os.remove(dest) in the except clause
download_url_rm_err(j) ==
    /\ job[j].impl = "method"
    /\ job[j].pc = "rm_err"
    /\ IF ~isfile(fs, job[j].dest)
       THEN Finish(j, "FileNotFoundError") /\ fs' = fs
       ELSE Finish(j, "returned") /\ fs' = remove(fs, job[j].dest)
    /\ UNCHANGED <<inputs, submitted, call, dirs>>

(***************************************************************************)
(* download_url(url, dest, sleep_interval), downloader.py 20-45.           *)
(***************************************************************************)
\* 20-23: os.makedirs(dirname, exist_ok=True); os.path.isfile(dest)
downloader_makedirs(j) ==
    /\ job[j].impl = "function"
    /\ CanStart(j)
    /\ dirs' = dirs \cup {job[j].dest.dir}
    /\ job' = [job EXCEPT ![j].pc = IF isfile(fs, job[j].dest) THEN "getsize" ELSE "sleep",
                          ![j].pre = Found(fs, job[j].dest)]
    /\ UNCHANGED progress
    /\ UNCHANGED <<inputs, submitted, call, fs>>

\* 23: os.path.getsize(dest) == 0
downloader_getsize(j) ==
    /\ job[j].impl = "function"
    /\ job[j].pc = "getsize"
    /\ IF ~isfile(fs, job[j].dest) THEN Finish(j, "FileNotFoundError")
       ELSE IF zero_size(fs, job[j].dest) THEN Goto(j, "remove")
       ELSE Goto(j, "sleep")
    /\ UNCHANGED <<inputs, submitted, call, fs, dirs>>

\* 24: os.remove(dest)
downloader_remove(j) ==
    /\ job[j].impl = "function"
    /\ job[j].pc = "remove"
    /\ IF ~isfile(fs, job[j].dest)
       THEN Finish(j, "FileNotFoundError") /\ fs' = fs
       ELSE Goto(j, "sleep") /\ fs' = remove(fs, job[j].dest)
    /\ UNCHANGED <<inputs, submitted, call, dirs>>

\* 27: time.sleep(sleep_interval)
downloader_sleep(j) ==
    /\ job[j].impl = "function"
    /\ job[j].pc = "sleep"
    /\ job' = [job EXCEPT ![j].pc = "get", ![j].slept = TRUE]
    /\ UNCHANGED progress
    /\ UNCHANGED <<inputs, submitted, call, fs, dirs>>

\* 29-31: requests.get(url, stream=True, timeout=10); the status check
downloader_get(j) ==
    /\ job[j].impl = "function"
    /\ job[j].pc = "get"
    /\ IF server.media[job[j].url].status # response_ok
       THEN Finish(j, raise(raise_for_status(server.media[job[j].url].status)))
       ELSE Goto(j, "isfile")
    /\ UNCHANGED <<inputs, submitted, call, fs, dirs>>

\* 34: os.path.isfile(dest), the left operand of `and`
downloader_isfile(j) ==
    /\ job[j].impl = "function"
    /\ job[j].pc = "isfile"
    /\ IF isfile(fs, job[j].dest) THEN Goto(j, "cmpsize") ELSE Goto(j, "open")
    /\ UNCHANGED <<inputs, submitted, call, fs, dirs>>

\* 35-37: os.path.getsize(dest) == response.headers["Content-length"]
downloader_cmpsize(j) ==
    /\ job[j].impl = "function"
    /\ job[j].pc = "cmpsize"
    /\ IF ~isfile(fs, job[j].dest) THEN Finish(j, "FileNotFoundError")
       ELSE IF ~server.media[job[j].url].declared THEN Finish(j, "KeyError")
       ELSE IF PyEq(PyInt(getsize(fs, job[j].dest)), PyStr(server.media[job[j].url].length))
       THEN Finish(j, "FileExistsError")
       ELSE Goto(j, "open")
    /\ UNCHANGED <<inputs, submitted, call, fs, dirs>>

\* 39: with open(dest, "xb") as handle
downloader_open(j) ==
    /\ job[j].impl = "function"
    /\ job[j].pc = "open"
    /\ IF open_x_refuses(fs, job[j].dest)
       THEN Finish(j, "FileExistsError") /\ fs' = fs
       ELSE Goto(j, "stream") /\ fs' = open_xb(fs, job[j].dest, j)
    /\ UNCHANGED <<inputs, submitted, call, dirs>>

\* 40-45: the chunks are written; a RequestException is logged, the file stays
downloader_stream(j) ==
    /\ job[j].impl = "function"
    /\ job[j].pc = "stream"
    /\ IF job[j].n = server.media[job[j].url].length
       THEN Finish(j, "returned") /\ fs' = fs
       ELSE \E arrives \in BOOLEAN :
              IF arrives
              THEN /\ fs' = write(fs, job[j].dest, j, Body(job[j].url)[job[j].n + 1])
                   /\ job' = [job EXCEPT ![j].n = @ + 1]
                   /\ UNCHANGED progress
              ELSE /\ fs' = fs
                   /\ job' = [job EXCEPT ![j].pc = "done", ![j].out = "returned",
                                         ![j].logged = TRUE]
                   /\ progressbar_update(j)
    /\ UNCHANGED <<inputs, submitted, call, dirs>>

\* The fetch holds the destination open for writing (between open and close).
HoldsOpen(j) ==
    IF job[j].impl = "method"
    THEN job[j].pc \in {"get", "cmpsize", "stream", "rm_err"}
    ELSE job[j].pc = "stream"

(***************************************************************************)
(* What the remote server answers.                                         *)
(***************************************************************************)
MediaStatuses == {response_ok, 204, 404}

\* A media answer: the status, and for an OK answer the number of chunks of the body
\* and whether a Content-length header declares it.
MediaAnswers ==
    {[status |-> response_ok, length |-> n, declared |-> d] :
        n \in 0..MaxChunks, d \in BOOLEAN}
    \cup {[status |-> s, length |-> 0, declared |-> FALSE] :
            s \in MediaStatuses \ {response_ok}}

(***************************************************************************)
(* A harness that calls a fetch routine directly for one snap of one user, *)
(* from several threads or one call after the other.                       *)
(***************************************************************************)
HarnessUser == <<"a">>
HarnessDest == output(HarnessUser, Snap(1))

\* What an earlier run may have left at a destination: nothing, or some prefix of a body.
Leftovers(dest, url) ==
    {<<>>} \cup
    {(dest :> [ino |-> <<0, 0>>, data |-> [k \in 1..n |-> <<url, k>>]]) : n \in 0..MaxChunks}

DirectCall ==
    /\ caller \in {"threads", "sequential"}
    /\ caller = "sequential" => \A j \in Jobs : job[j].pc = "done"
    /\ Cardinality(Jobs) < MaxDirect
    /\ \E impl \in {"method", "function"} :
         job' = (<<0, Cardinality(Jobs) + 1>> :> NewJob(impl, 1, HarnessDest)) @@ job
    /\ UNCHANGED <<inputs, submitted, call, progress, fs, dirs>>

InitHarness(callers) ==
    /\ cfg = [max_workers |-> 1, limit_story |-> -1, no_progress |-> TRUE]
    /\ tdqm_progressbar = "unset"
    /\ bars = <<>>
    /\ args = <<>>
    /\ server \in [manifest : {<<>>}, media : [{1} -> MediaAnswers]]
    /\ caller \in callers
    /\ submitted = 0
    /\ call = <<>>
    /\ job = <<>>
    /\ fs \in Leftovers(HarnessDest, 1)
    /\ dirs = {}
    /\ first_run = [fs |-> fs, ended |-> <<>>]

NextFetch ==
    \/ DirectCall
    \/ \E j \in Jobs : download_url_makedirs(j)
    \/ \E j \in Jobs : download_url_getsize(j)
    \/ \E j \in Jobs : download_url_remove(j)
    \/ \E j \in Jobs : download_url_open(j)
    \/ \E j \in Jobs : download_url_get(j)
    \/ \E j \in Jobs : download_url_cmpsize(j)
    \/ \E j \in Jobs : download_url_stream(j)
    \/ \E j \in Jobs : download_url_rm_err(j)
    \/ \E j \in Jobs : downloader_makedirs(j)
    \/ \E j \in Jobs : downloader_getsize(j)
    \/ \E j \in Jobs : downloader_remove(j)
    \/ \E j \in Jobs : downloader_sleep(j)
    \/ \E j \in Jobs : downloader_get(j)
    \/ \E j \in Jobs : downloader_isfile(j)
    \/ \E j \in Jobs : downloader_cmpsize(j)
    \/ \E j \in Jobs : downloader_open(j)
    \/ \E j \in Jobs : downloader_stream(j)

\* SpecFetch: the fetches run on threads of the harness, or one after the other.
InitFetch == InitHarness({"threads", "sequential"})
SpecFetch == InitFetch /\ [][NextFetch]_vars

\* SpecRerun: a fetch is started when the one before it has ended.
InitRerun == InitHarness({"sequential"})
SpecRerun == InitRerun /\ [][NextFetch]_vars

(***************************************************************************)
(* SnapchatDL.download(username), snapchat_dl.py 140-186, run on a thread  *)
(* of the executor main() creates (cli.py 142-154).                        *)
(***************************************************************************)
\* What the manifest endpoint may answer: a status and, for 200, the JSON body: a
\* "story" object or none, inside it "snaps" or none.
ManifestAnswers(statuses, manifests) ==
    {[status |-> s, story |-> FALSE, snaps |-> FALSE, items |-> <<>>] :
        s \in statuses \ {200}}
    \cup {[status |-> 200, story |-> FALSE, snaps |-> FALSE, items |-> <<>>],
          [status |-> 200, story |-> TRUE, snaps |-> FALSE, items |-> <<>>]}
    \cup {[status |-> 200, story |-> TRUE, snaps |-> TRUE,
           items |-> [k \in 1..Len(m) |-> Snap(m[k])]] : m \in manifests}

\* Mutant: the status of the answer is not looked at.
get_stories_any_status(username) ==
    [stories_available |-> TRUE, data |-> server.manifest[username]]

\* get_stories: 39-42
get_stories(username) ==
    IF server.manifest[username].status # 200
    THEN [stories_available |-> FALSE]
    ELSE [stories_available |-> TRUE, data |-> server.manifest[username]]

Min(a, b) == IF a < b THEN a ELSE b
Max(a, b) == IF a < b THEN b ELSE a

\* stories[0 : stop], a Python slice: a negative stop counts from the end.
slice(stories, stop) ==
    SubSeq(stories, 1,
           IF stop < 0 THEN Max(Len(stories) + stop, 0) ELSE Min(stop, Len(stories)))

\* Mutant: the limit is applied only when it is positive.
limited_when_positive(stories, limit_story) ==
    IF limit_story > 0 THEN slice(stories, limit_story) ELSE stories

\* 152-156: the stories that download goes on with
limited(stories, limit_story) ==
    IF limit_story > -1 THEN slice(stories, limit_story) ELSE stories

NewCall(username) ==
    [user |-> username, pc |-> "queued", stories |-> <<>>, next |-> 1,
     requests |-> 0, ret |-> "none", exc |-> "none"]

\* cli.py 146-154: download_users submits downlaoder.download for the next username
download_users ==
    /\ caller = "cli"
    /\ submitted < Len(args)
    /\ submitted' = submitted + 1
    /\ call' = (submitted + 1 :> NewCall(args[submitted + 1])) @@ call
    /\ UNCHANGED <<inputs, progress, job, fs, dirs>>

Calls == DOMAIN call
Active(c) == call[c].pc \notin {"queued", "done"}

\* main()'s executor has max_workers threads too (cli.py 142-144).
CallCanStart(c) ==
    /\ call[c].pc = "queued"
    /\ \A d \in Calls : d < c => call[d].pc # "queued"
    /\ Cardinality({d \in Calls : Active(d)}) < cfg.max_workers

Return(c, value) == call' = [call EXCEPT ![c].pc = "done", ![c].ret = value]
Raise(c, exc) == call' = [call EXCEPT ![c].pc = "done", ![c].exc = exc]

\* 140-141: the username check
download_valid_username(c) ==
    /\ CallCanStart(c)
    /\ IF valid_username(call[c].user) = FALSE
       THEN Raise(c, "invalid username")
       ELSE call' = [call EXCEPT ![c].pc = "get_stories"]
    /\ UNCHANGED <<inputs, submitted, progress, job, fs, dirs>>

\* 118-129: _progressbar stores a new bar in the instance attribute
progressbar(c, total) ==
    IF cfg.no_progress = FALSE
    THEN /\ tdqm_progressbar' = c
         /\ bars' = (c :> [total |-> total, n |-> 0]) @@ bars
    ELSE UNCHANGED progress

\* 143-158: the manifest request, the stories taken from it, the progress bar
download_get_stories(c) ==
    /\ call[c].pc = "get_stories"
    /\ LET response == get_stories(call[c].user)
           asked == [call EXCEPT ![c].requests = @ + 1]
       IN IF response.stories_available = FALSE
          THEN /\ call' = [asked EXCEPT ![c].pc = "done", ![c].ret = "False"]
               /\ UNCHANGED progress
          ELSE IF ~response.data.story
          THEN \* data.get("story") is None: None.get("snaps")
               /\ call' = [asked EXCEPT ![c].pc = "done", ![c].exc = "AttributeError"]
               /\ UNCHANGED progress
          ELSE IF ~response.data.snaps
          THEN \* stories is None: None[0:limit_story], or len(None)
               /\ call' = [asked EXCEPT ![c].pc = "done", ![c].exc = "TypeError"]
               /\ UNCHANGED progress
          ELSE LET stories == limited(response.data.items, cfg.limit_story)
               IN /\ call' = [asked EXCEPT ![c].pc = "submit", ![c].stories = stories]
                  /\ progressbar(c, Len(stories))
    /\ UNCHANGED <<inputs, submitted, job, fs, dirs>>

\* 168-182: one turn of the loop: executor.submit(self.download_url, media_url, output)
\* and add_done_callback; after the last turn the with block is left
download_submit(c) ==
    /\ call[c].pc = "submit"
    /\ IF call[c].next > Len(call[c].stories)
       THEN /\ call' = [call EXCEPT ![c].pc = "shutdown"]
            /\ job' = job
       ELSE LET media == call[c].stories[call[c].next]
            IN /\ job' = (<<c, call[c].next>> :>
                            NewJob("method", media.media.mediaUrl,
                                   output(call[c].user, media))) @@ job
               /\ call' = [call EXCEPT ![c].next = @ + 1]
    /\ UNCHANGED <<inputs, submitted, progress, fs, dirs>>

\* Mutant: the executor is shut down with wait=False.
shutdown_nowait(c) == TRUE

\* 160-162: leaving the with block is executor.shutdown(wait=True): it waits until
\* every work item submitted to this executor has ended.
shutdown_waited(c) == \A j \in JobsOf(c) : job[j].pc = "done"

\* Mutant: download collects future.result() and the first failure is raised again.
reraised_first(outcomes) ==
    IF outcomes \subseteq {"returned"} THEN "none"
    ELSE CHOOSE o \in outcomes : o # "returned"

\* 180-184: the futures are dropped, future.result() is never called: whatever a
\* work item raised stays in its future and nothing is raised in download.
reraised(outcomes) == "none"

\* Mutant: the result tells whether every work item returned.
download_result_all_ok(outcomes) ==
    IF outcomes \subseteq {"returned"} THEN "True" ELSE "False"

\* 186: return True, whatever the work items did.
download_result(outcomes) == "True"

Outcomes(c) == {job[j].out : j \in JobsOf(c)}

\* 160-162, 186: leave the with block, return
download_return(c) ==
    /\ call[c].pc = "shutdown"
    /\ shutdown_waited(c)
    /\ IF reraised(Outcomes(c)) = "none"
       THEN Return(c, download_result(Outcomes(c)))
       ELSE Raise(c, reraised(Outcomes(c)))
    /\ UNCHANGED <<inputs, submitted, progress, job, fs, dirs>>

(***************************************************************************)
(* The console script run with some usernames.                             *)
(***************************************************************************)
Range(seq) == {seq[i] : i \in 1..Len(seq)}

\* The server holds a manifest answer for each username asked for: Manifests
\* is a set of functions over Range(args).
InitProgram(Cfgs, Args, Manifests, Medias, Files) ==
    /\ cfg \in Cfgs
    /\ args \in Args
    /\ server \in [manifest : Manifests, media : Medias]
    /\ caller = "cli"
    /\ submitted = 0
    /\ call = <<>>
    /\ job = <<>>
    /\ fs \in Files
    /\ dirs = {}
    /\ tdqm_progressbar = "unset"
    /\ bars = <<>>
    /\ first_run = [fs |-> fs, ended |-> <<>>]

Next ==
    \/ download_users
    \/ \E c \in Calls : download_valid_username(c)
    \/ \E c \in Calls : download_get_stories(c)
    \/ \E c \in Calls : download_submit(c)
    \/ \E c \in Calls : download_return(c)
    \/ \E j \in Jobs : download_url_makedirs(j)
    \/ \E j \in Jobs : download_url_getsize(j)
    \/ \E j \in Jobs : download_url_remove(j)
    \/ \E j \in Jobs : download_url_open(j)
    \/ \E j \in Jobs : download_url_get(j)
    \/ \E j \in Jobs : download_url_cmpsize(j)
    \/ \E j \in Jobs : download_url_stream(j)
    \/ \E j \in Jobs : download_url_rm_err(j)

(***************************************************************************)
(* Spec: a batch of usernames downloaded concurrently.                     *)
(***************************************************************************)
CliUsers == {<<"a">>, <<"b">>}

\* User a has two snaps (the same one listed twice, or two different ones), user b one.
CliManifests ==
    {m \in {[u \in Range(args) |-> IF u = <<"a">> THEN x ELSE y] :
                x \in ManifestAnswers({200}, {<<1, 1>>, <<1, 2>>}),
                y \in ManifestAnswers({200}, {<<2>>})} :
        \A u \in Range(args) : m[u].snaps}

OkAnswer(n) == [status |-> response_ok, length |-> n, declared |-> TRUE]
ErrAnswer(s) == [status |-> s, length |-> 0, declared |-> FALSE]

RECURSIVE Planned(_)
Planned(users) ==
    IF users = <<>> THEN 0
    ELSE Len(server.manifest[Head(users)].items) + Planned(Tail(users))

InitBatch ==
    InitProgram(
        [max_workers : 1..MaxWorkers, limit_story : {-1}, no_progress : {FALSE}],
        {a \in SeqsUpTo(CliUsers, MaxUsers) : Len(a) > 0},
        CliManifests,
        {[url \in 1..MaxSnaps |-> IF url = 1 THEN x ELSE OkAnswer(1)] :
            x \in {OkAnswer(1), ErrAnswer(404)}},
        {<<>>})

Init == InitBatch /\ Planned(args) <= MaxJobs
Spec == Init /\ [][Next]_vars

\* SpecPair: the batches of at most MaxPair snaps.
InitPair == InitBatch /\ Planned(args) <= MaxPair
SpecPair == InitPair /\ [][Next]_vars

\* SpecLive: the same batches with fair scheduling: a thread that can take a step
\* eventually takes one, and every HTTP call returns or times out.
SpecLive == InitPair /\ [][Next]_vars /\ WF_vars(Next)

(***************************************************************************)
(* SpecPlan: one username, every manifest answer and every limit_story.    *)
(***************************************************************************)
PlanUser == <<"a">>
PlanManifests ==
    [Range(args) -> ManifestAnswers({200, 404}, SeqsUpTo(1..MaxSnaps, MaxSnaps))]

InitPlan ==
    InitProgram(
        [max_workers : {1}, limit_story : -1..MaxSnaps + 1, no_progress : BOOLEAN],
        {<<PlanUser>>},
        PlanManifests,
        {[url \in 1..MaxSnaps |-> IF url = 1 THEN x ELSE OkAnswer(1)] :
            x \in {OkAnswer(1), ErrAnswer(404)}},
        {<<>>})

SpecPlan == InitPlan /\ [][Next]_vars

(***************************************************************************)
(* SpecName: one username of any characters; the server has one snap.      *)
(***************************************************************************)
Usernames == SeqsUpTo(Chars, MaxNameLen)
NameManifests ==
    {[u \in Range(args) |-> x] :
        x \in {y \in ManifestAnswers({200, 404}, {<<1>>}) : y.snaps \/ y.status # 200}}

InitName ==
    InitProgram(
        [max_workers : {1}, limit_story : {-1}, no_progress : {TRUE}],
        {<<u>> : u \in Usernames},
        NameManifests,
        {[url \in 1..MaxSnaps |-> x] : x \in {OkAnswer(1), ErrAnswer(404)}},
        Leftovers(output(<<"a">>, Snap(1)), 1))

SpecName == InitName /\ [][Next]_vars

(***************************************************************************)
(* SpecObserver: the console script run twice on the same usernames, the   *)
(* same server and the same initial files, once with progress and once     *)
(* without.  The usernames differ and so do the snaps of a manifest: no    *)
(* two tasks share a path.                                                 *)
(***************************************************************************)
ObserverManifests ==
    {[u \in Range(args) |-> IF u = <<"a">> THEN x ELSE y] :
        x \in ManifestAnswers({200}, {<<1>>, <<1, 2>>}) \cup ManifestAnswers({404}, {}),
        y \in ManifestAnswers({200}, {<<2>>})}

InitObserver ==
    /\ InitProgram(
        [max_workers : 1..MaxWorkers, limit_story : {-1}, no_progress : BOOLEAN],
        {a \in SeqsUpTo(CliUsers, MaxUsers) :
            Len(a) > 0 /\ \A i, k \in 1..Len(a) : a[i] = a[k] => i = k},
        ObserverManifests,
        {[url \in 1..MaxSnaps |-> IF url = 1 THEN x ELSE OkAnswer(1)] :
            x \in {OkAnswer(1), ErrAnswer(404)}},
        Leftovers(output(<<"a">>, Snap(1)), 1))
    /\ Planned(args) <= MaxPair

\* main() has ended: every username was submitted and every download has ended.
main_ended == submitted = Len(args) /\ \A c \in Calls : call[c].pc = "done"

\* The script is started again with the other no_progress setting and the files put
\* back as they were before the first run.
run_again ==
    /\ caller = "cli"
    /\ first_run.ended = <<>>
    /\ main_ended
    /\ first_run' = [first_run EXCEPT !.ended = <<[call |-> call, job |-> job,
                                                   fs |-> fs, dirs |-> dirs]>>]
    /\ cfg' = [cfg EXCEPT !.no_progress = ~@]
    /\ submitted' = 0
    /\ call' = <<>>
    /\ job' = <<>>
    /\ fs' = first_run.fs
    /\ dirs' = {}
    /\ tdqm_progressbar' = "unset"
    /\ bars' = <<>>
    /\ UNCHANGED <<args, server, caller>>

NextObserver ==
    \/ run_again
    \/ download_users
    \/ \E c \in Calls : download_valid_username(c)
    \/ \E c \in Calls : download_get_stories(c)
    \/ \E c \in Calls : download_submit(c)
    \/ \E c \in Calls : download_return(c)
    \/ \E j \in Jobs : download_url_makedirs(j)
    \/ \E j \in Jobs : download_url_getsize(j)
    \/ \E j \in Jobs : download_url_remove(j)
    \/ \E j \in Jobs : download_url_open(j)
    \/ \E j \in Jobs : download_url_get(j)
    \/ \E j \in Jobs : download_url_cmpsize(j)
    \/ \E j \in Jobs : download_url_stream(j)
    \/ \E j \in Jobs : download_url_rm_err(j)

SpecObserver == InitObserver /\ [][NextObserver]_vars

(***************************************************************************)
(*                              The claims                                 *)
(***************************************************************************)
\* A fetch whose media request is under way or whose body is being streamed.
InFlight(j) == job[j].pc \in {"get", "cmpsize", "stream"}

\* C1: with max_workers = K, at no point are more than K fetches in flight in
\* total, over all the usernames of a batch processed at the same time.
C1_GlobalCap ==
    Cardinality({j \in Jobs : InFlight(j)}) <= cfg.max_workers

\* C2: at most one fetch holds a given destination path open for writing, in every
\* reachable state.
C2_OneWriterPerPath ==
    \A j, k \in Jobs :
        HoldsOpen(j) /\ HoldsOpen(k) /\ job[j].dest = job[k].dest => j = k

\* The file has the size the media answer declares in its Content-length header.
Complete(file, url) ==
    /\ server.media[url].status = response_ok
    /\ server.media[url].declared
    /\ Len(file.data) = server.media[url].length

Succeeded(j) == job[j].pc = "done" /\ job[j].out = "returned" /\ ~job[j].logged

\* No fetch was started after j.
Latest(j) == \A k \in Jobs : k[2] > j[2] => job[k].pc = "pending"

\* C3, as claimed: a fetch that finds its destination complete ends with
\* FileExistsError (the skip) and leaves the file as it found it.
C3_RerunSkips_AnySize ==
    \A j \in Jobs :
        job[j].pc = "done" /\ (\E f \in job[j].pre : Complete(f, job[j].url))
        => /\ job[j].out = "FileExistsError"
           /\ Found(fs, job[j].dest) = job[j].pre

\* C3, amended: a fetch that finds its destination complete and not empty ends
\* with FileExistsError (the skip) and leaves the file as it found it, same inode
\* and same bytes; so a second fetch of a task leaves what the first one left.
C3_RerunSkips ==
    \A j \in Jobs :
        job[j].pc = "done"
        /\ (\E f \in job[j].pre : Complete(f, job[j].url) /\ Len(f.data) > 0)
        => /\ job[j].out = "FileExistsError"
           /\ Found(fs, job[j].dest) = job[j].pre

\* A first fetch downloaded the body and a second fetch of the same task ended.
C3_Witness ==
    /\ <<0, 2>> \in Jobs
    /\ Succeeded(<<0, 1>>)
    /\ job[<<0, 1>>].pre = {}
    /\ job[<<0, 2>>].pc = "done"
    /\ job[<<0, 2>>].pre = {[ino |-> <<0, 1>>, data |-> Body(1)]}
    /\ Len(Body(1)) > 0

\* C4: once every fetch has ended, the last fetch to start, if it found its
\* destination with size 0 and its own transfer succeeded, has left the whole
\* body at the destination.
C4_ZeroSizeHealed ==
    \A j \in Jobs :
        (/\ \A k \in Jobs : job[k].pc = "done"
         /\ Latest(j)
         /\ \E f \in job[j].pre : Len(f.data) = 0
         /\ Succeeded(j))
        => /\ isfile(fs, job[j].dest)
           /\ fs[job[j].dest].data = Body(job[j].url)

\* The manifest answer for the username of a call, and whether it lists snaps.
Manifest(c) == server.manifest[call[c].user]
Available(c) == Manifest(c).status = 200 /\ Manifest(c).story /\ Manifest(c).snaps

\* The first N items of a manifest (all of them for N = -1), from the claim.
FirstN(items, N) ==
    IF N = -1 THEN items ELSE [k \in 1..(IF N < Len(items) THEN N ELSE Len(items)) |-> items[k]]

\* C5: for limit_story = N >= 0 download creates exactly min(N, manifest length)
\* tasks, the first N manifest items in manifest order; for -1 one per item.
C5_TasksAreFirstN ==
    \A c \in Calls :
        call[c].pc \in {"shutdown", "done"} /\ Available(c)
        /\ (cfg.limit_story >= 0 \/ cfg.limit_story = -1)
        => LET want == FirstN(Manifest(c).items, cfg.limit_story)
           IN /\ JobsOf(c) = {<<c, i>> : i \in 1..Len(want)}
              /\ \A i \in 1..Len(want) :
                    /\ job[<<c, i>>].url = want[i].media.mediaUrl
                    /\ job[<<c, i>>].dest = output(call[c].user, want[i])

\* A manifest of two different snaps was cut to its first by limit_story = 1.
C5_Witness ==
    \E c \in Calls :
        /\ call[c].pc = "done"
        /\ cfg.limit_story = 1
        /\ Available(c) /\ Len(Manifest(c).items) = 2
        /\ Manifest(c).items[1] # Manifest(c).items[2]
        /\ JobsOf(c) = {<<c, 1>>}
        /\ job[<<c, 1>>].url = Manifest(c).items[1].media.mediaUrl

C7_MissingSnapsIsUnavailable ==
    \A c \in Calls :
        call[c].pc = "done" /\ call[c].requests > 0
        /\ Manifest(c).status = 200 /\ ~(Manifest(c).story /\ Manifest(c).snaps)
        => /\ call[c].ret = "False"
           /\ call[c].exc = "none"

\* The usernames the claim calls valid: ^[A-Za-z0-9_.]+$ as a full match.
AsciiUsername(username) ==
    /\ Len(username) > 0
    /\ \A i \in 1..Len(username) : username[i] \in AsciiWord \cup {"."}

\* C8: download fails with the invalid-username error exactly for the usernames
\* that do not match ^[A-Za-z0-9_.]+$, and then before any request or task.
C8_InvalidIffNotAscii ==
    \A c \in Calls :
        call[c].pc = "done"
        => /\ call[c].exc = "invalid username" <=> ~AsciiUsername(call[c].user)
           /\ call[c].exc = "invalid username"
              => call[c].requests = 0 /\ JobsOf(c) = {}

Failed(j) == job[j].pc = "done" /\ job[j].out # "returned"

\* C9: a failure inside one fetch (HTTP error, already-exists, any exception) does
\* not abort the batch: a download that found stories returns normally, and by then
\* every task of its stories was submitted and has run to its end.
C9_FailuresDoNotAbort ==
    \A c \in Calls :
        call[c].pc = "done" /\ call[c].requests > 0 /\ Available(c)
        => /\ call[c].exc = "none"
           /\ call[c].ret = "True"
           /\ \A i \in 1..Len(call[c].stories) :
                <<c, i>> \in Jobs /\ job[<<c, i>>].pc = "done"

\* A download returned although one of its tasks failed with an HTTP error, and a
\* sibling submitted after the failed one downloaded its body.
C9_Witness ==
    \E c \in Calls : \E j, k \in JobsOf(c) :
        /\ call[c].pc = "done"
        /\ j[2] < k[2]
        /\ job[j].out = "HTTPError"
        /\ Succeeded(k)

\* What became of the tasks of a call: downloaded, skipped, failed.
Counts(c) ==
    <<Cardinality({j \in JobsOf(c) : Succeeded(j)}),
      Cardinality({j \in JobsOf(c) : job[j].out = "FileExistsError"}),
      Cardinality({j \in JobsOf(c) : Failed(j) /\ job[j].out # "FileExistsError"})>>

C11_ReturnsAfterAllTasks ==
    \A c \in Calls :
        call[c].pc = "done" => \A j \in JobsOf(c) : job[j].pc = "done"

\* A download of two tasks has returned.
C11_Witness ==
    \E c \in Calls :
        /\ call[c].pc = "done" /\ call[c].ret = "True"
        /\ Cardinality(JobsOf(c)) = 2

\* C12: the completed-count of each username's progress bar never exceeds its
\* total, counts exactly the ended tasks of that username, and equals the total
\* when the username's download has ended; also with usernames run concurrently.
C12_ProgressPerUser ==
    \A c \in DOMAIN bars :
        /\ bars[c].n <= bars[c].total
        /\ bars[c].n = Cardinality({j \in JobsOf(c) : job[j].pc = "done"})
        /\ call[c].pc = "done" => bars[c].n = bars[c].total

\* The next step of a fetch of the method that has been started.
method_step(j) ==
    \/ download_url_getsize(j)
    \/ download_url_remove(j)
    \/ download_url_open(j)
    \/ download_url_get(j)
    \/ download_url_cmpsize(j)
    \/ download_url_stream(j)
    \/ download_url_rm_err(j)

\* No connection broke during a transfer.
NoTransportError(jobs) == \A j \in DOMAIN jobs : ~jobs[j].logged

\* C13: the run with progress and the run without create the same tasks and, when
\* the network behaves the same (no transfer breaks), end with the same task
\* outcomes, the same results of download and the same files; and a started fetch
\* can always take its next step, whatever the state of the progress bars.
C13_ProgressIsObserver ==
    /\ \A j \in Jobs : Running(j) => ENABLED method_step(j)
    /\ (first_run.ended # <<>> /\ main_ended)
       => LET first == first_run.ended[1]
          IN /\ DOMAIN job = DOMAIN first.job
             /\ \A j \in Jobs : /\ job[j].url = first.job[j].url
                                 /\ job[j].dest = first.job[j].dest
             /\ (NoTransportError(job) /\ NoTransportError(first.job))
                => /\ job = first.job
                   /\ call = first.call
                   /\ fs = first.fs
                   /\ dirs = first.dirs

\* Both runs have ended without a broken transfer, the second one with progress
\* bars, with a task that downloaded its body and a task that failed.
C13_Witness ==
    /\ first_run.ended # <<>> /\ main_ended
    /\ cfg.no_progress = FALSE
    /\ NoTransportError(job) /\ NoTransportError(first_run.ended[1].job)
    /\ \E j, k \in Jobs : Succeeded(j) /\ Failed(k)
    /\ \E c \in DOMAIN bars : bars[c].n > 0

\* C14: a download whose API response holds no stories (get_stories reports
\* stories_available False) ends by raising NoStoriesAvailable, not by returning.
C14_NoStoriesRaises ==
    \A c \in Calls :
        call[c].pc = "done" /\ call[c].requests > 0
        /\ get_stories(call[c].user).stories_available = FALSE
        => call[c].exc = "NoStoriesAvailable" /\ call[c].ret = "none"

\* The statuses the claim calls 2xx.
Is2xx(status) == status >= 200 /\ status < 300

\* C15: a fetch fails with an HTTP error exactly when the media GET answers a
\* non-2xx status: a fetch that ended with an HTTP error had a non-2xx answer, a
\* non-2xx answer ends the fetch with an HTTP error and nothing else (unless the
\* fetch ended on the file before it asked), and a 2xx answer is never an error
\* of the status check.
C15_HttpErrorIffNon2xx ==
    \A j \in Jobs :
        job[j].pc = "done"
        => LET status == server.media[job[j].url].status
           IN /\ job[j].out = "HTTPError" => ~Is2xx(status)
              /\ ~Is2xx(status)
                 => job[j].out \in {"HTTPError", "FileExistsError", "FileNotFoundError"}
              /\ Is2xx(status) => job[j].out # "TypeError"

\* C16: a fetch that download started and whose media GET has been answered has
\* slept for the rate-limit delay before it sent the request.
C16_SleepBeforeGet ==
    \A j \in Jobs :
        j[1] # 0 /\ job[j].pc \in {"cmpsize", "isfile", "stream"} => job[j].slept

\* C17: a fetch whose transfer broke has logged the error and ended without
\* raising, and (no fetch having started after it) the file it was writing is
\* still at the destination with the chunks that had arrived.
C17_PartialFileIsLeft ==
    \A j \in Jobs :
        job[j].pc = "done" /\ job[j].logged /\ Latest(j)
        => /\ job[j].out = "returned"
           /\ isfile(fs, job[j].dest)
           /\ fs[job[j].dest] = [ino |-> j, data |-> SubSeq(Body(job[j].url), 1, job[j].n)]

\* C18: a fetch that found no file at its destination and failed with the HTTP
\* error of the media answer leaves no file there (no fetch having started after it).
C18_FailedGetLeavesNoFile ==
    \A j \in Jobs :
        job[j].pc = "done" /\ job[j].out = "HTTPError"
        /\ job[j].pre = {} /\ Latest(j)
        => ~isfile(fs, job[j].dest)

\* C19: no step of a fetch removes or replaces a file with nonzero content that
\* another fetch (or an earlier run) created: when a file that holds data is gone
\* from its path or replaced there after a step, the fetch that took the step is
\* the one that created the file.
C19_NoForeignRemoval ==
    [][\A d \in DOMAIN fs :
          (Len(fs[d].data) > 0 /\ (d \notin DOMAIN fs' \/ fs'[d].ino # fs[d].ino))
          => \A j \in DOMAIN job : job'[j] # job[j] => fs[d].ino = j]_vars

\* C20: under fair scheduling every batch ends: eventually every username has
\* been submitted, every download call has ended and every fetch has ended; no
\* download call waits forever for a thread of either pool.
C20_BatchTerminates ==
    <>(main_ended /\ \A j \in Jobs : job[j].pc = "done")

\* Two usernames were run on one thread (max_workers = 1), two fetches were made,
\* and everything has ended.
C20_Witness ==
    /\ main_ended
    /\ Len(args) = 2 /\ cfg.max_workers = 1
    /\ Cardinality(Jobs) = 2
    /\ \A j \in Jobs : job[j].pc = "done"

====
